---- MODULE Spec2Model ----
(***************************************************************************)
(* State-machine model of spicy::zeek::Driver (src/src/compiler/driver.cc, *)
(* src/include/compiler/driver.h): path resolution and extension dispatch  *)
(* of loadFile, compile() with the pre-/post-resolution hooks the          *)
(* underlying compiler calls back, the type registry and the public-enum   *)
(* list, and the glue-compilation latch.                                   *)
(***************************************************************************)
EXTENDS Integers, Sequences, FiniteSets, TLC

\* ------------------------------------------------------------------ bounds

\* Number of public API calls (loadFile, compile) made on one Driver.
MaxCalls == 3
\* Number of modules the underlying compiler processes in one compile() run.
MaxUnits == 2
\* Number of hookCompilationFinished invocations in one compile() run
\* (the underlying compiler triggers it once per compiler plugin).
MaxFinished == 2

\* ------------------------------------------------------------------- paths

\* A filesystem path: absolute or relative, directory components, and the
\* file name split into stem and extension (the extension keeps its dot and
\* its case).  A directory is a path without a file name.
P(abs, dirs, stem, ext) == [abs |-> abs, dirs |-> dirs, stem |-> stem, ext |-> ext]

EmptyPath == P(FALSE, <<>>, "", "")

Dir(abs, dirs) == P(abs, dirs, "", "")

is_empty(p) == p = EmptyPath

is_relative(p) == ~p.abs

\* std::filesystem operator/ : an absolute right-hand side replaces the left.
Join(d, f) ==
    IF f.abs THEN f ELSE P(d.abs, d.dirs \o f.dirs, f.stem, f.ext)

\* Lexical normalisation of directory components ("." dropped, ".." pops).
RECURSIVE NormDirs(_, _)
NormDirs(todo, done) ==
    IF todo = <<>> THEN done
    ELSE IF Head(todo) = "." THEN NormDirs(Tail(todo), done)
    ELSE IF Head(todo) = ".."
         THEN NormDirs(Tail(todo),
                       IF done = <<>> THEN done ELSE SubSeq(done, 1, Len(done) - 1))
    ELSE NormDirs(Tail(todo), Append(done, Head(todo)))

\* Current working directory of the process.
Cwd == <<"cwd">>

\* filesystem::canonical: absolute, no "." / "..", file name untouched.
canonical(p) ==
    P(TRUE, NormDirs(IF p.abs THEN p.dirs ELSE Cwd \o p.dirs, <<>>), p.stem, p.ext)

\* Files on disk, by canonical path.
FileASpicyCwd  == P(TRUE, <<"cwd">>,  "a", ".spicy")
FileASpicyBase == P(TRUE, <<"base">>, "a", ".spicy")
FileCEvtLib1   == P(TRUE, <<"lib1">>, "c", ".evt")
FileCEvtLib2   == P(TRUE, <<"lib2">>, "c", ".evt")
FileDHltLib2   == P(TRUE, <<"lib2">>, "d", ".hlt")
FileNTxtCwd    == P(TRUE, <<"cwd">>,  "n", ".txt")
FileUUpperLib1 == P(TRUE, <<"lib1">>, "u", ".SPICY")
FileOHltoCwd   == P(TRUE, <<"cwd">>,  "o", ".hlto")
FilePCcBase    == P(TRUE, <<"base">>, "p", ".cc")
FileQCxxLib2   == P(TRUE, <<"lib2">>, "q", ".cxx")

\* Two states of the disk: in the second, a.spicy exists only below the base
\* directory and c.evt only below the second library directory.
FileSystems ==
    { {FileASpicyCwd, FileASpicyBase, FileCEvtLib1, FileCEvtLib2, FileDHltLib2,
       FileNTxtCwd, FileUUpperLib1, FileOHltoCwd, FilePCcBase, FileQCxxLib2},
      {FileASpicyBase, FileCEvtLib2, FileDHltLib2, FileNTxtCwd, FileUUpperLib1,
       FileOHltoCwd, FilePCcBase, FileQCxxLib2} }

Lib1 == Dir(TRUE, <<"lib1">>)
Lib2 == Dir(TRUE, <<"lib2">>)
Base == Dir(TRUE, <<"base">>)

\* hiltiOptions().library_paths as left by the constructor.
LibraryPathChoices == { <<>>, <<Lib1, Lib2>> }

\* Arguments callers pass to loadFile.
RequestFiles ==
    { P(FALSE, <<".">>, "a", ".spicy"),
      P(FALSE, <<>>, "c", ".evt"),
      P(FALSE, <<>>, "d", ".hlt"),
      P(FALSE, <<>>, "o", ".hlto"),
      P(FALSE, <<>>, "p", ".cc"),
      P(FALSE, <<>>, "q", ".cxx"),
      P(FALSE, <<>>, "n", ".txt"),
      P(FALSE, <<>>, "u", ".SPICY"),
      P(FALSE, <<>>, "missing", ".txt"),
      P(TRUE,  <<"lib1">>, "missing", ".evt") }

RelativeTos == { EmptyPath, Base }

\* ------------------------------------------------------------- result type

Nothing == [kind |-> "ok", msg |-> "", path |-> EmptyPath]

Error(kind, msg, path) == [kind |-> kind, msg |-> msg, path |-> path]

\* Error the underlying compiler's addInput reports for a path.
AddInputError(path) == Error("LoadFailure", "addInput failed", path)

\* The bool a failing call of the glue coordinator returns.
GlueFalse == [kind |-> "false", msg |-> "", path |-> EmptyPath]

\* Error the underlying whole-program compile reports.
CompileError == Error("CompileFailure", "compiler backend error", EmptyPath)

\* ------------------------------------------------- modules and type records

\* A top-level type declaration of a module.
Decl(id, kind, linkage) == [id |-> id, kind |-> kind, linkage |-> linkage]

\* A hilti::Unit handle as passed to the hooks: module id, originating path,
\* extension tag and the type declarations of its AST.
Unit(id, path, ext, decls) == [id |-> id, path |-> path, ext |-> ext, decls |-> decls]

UnitA ==
    Unit("a", FileASpicyCwd, ".spicy",
         << Decl("Color", "enum", "public"), Decl("Msg", "unit", "public") >>)

\* A second module that also calls itself "a".
UnitA2 ==
    Unit("a", FileASpicyBase, ".spicy",
         << Decl("Color", "struct", "public"), Decl("Flags", "enum", "private") >>)

\* A module with one of the internal module names.
UnitHilti ==
    Unit("hilti", P(TRUE, <<"lib1">>, "hilti", ".spicy"), ".spicy",
         << Decl("Kind", "enum", "public") >>)

\* Modules with the other two internal module names.
UnitSpicyRt ==
    Unit("spicy_rt", P(TRUE, <<"lib1">>, "spicy_rt", ".spicy"), ".spicy",
         << Decl("Kind", "enum", "public") >>)

UnitZeekRt ==
    Unit("zeek_rt", P(TRUE, <<"lib1">>, "zeek_rt", ".spicy"), ".spicy",
         << Decl("Kind", "enum", "public") >>)

\* A module constructed in memory.
UnitMem ==
    Unit("mem", EmptyPath, ".spicy", << Decl("Tmp", "enum", "public") >>)

\* An intermediate-representation module.
UnitHlt ==
    Unit("d", FileDHltLib2, ".hlt", << Decl("Level", "enum", "public") >>)

Units == { UnitA, UnitA2, UnitHilti, UnitMem, UnitHlt }

\* The runtime-library modules, which a program brings in next to its own.
RuntimeUnits == { UnitSpicyRt, UnitZeekRt }

\* hilti::ID(module, local)
ID(module, local) == << module, local >>

TypeInfo(unit, d, is_resolved) ==
    [ id          |-> ID(unit.id, d.id),
      type        |-> d.kind,
      linkage     |-> d.linkage,
      is_resolved |-> is_resolved,
      module_id   |-> unit.id,
      module_path |-> unit.path ]

\* --------------------------------------------------------------- variables

VARIABLES
    fs,             \* files that exist, by canonical path
    library_paths,  \* hiltiOptions().library_paths
    inputs,         \* paths queued in the underlying compiler by addInput
    _types,         \* Driver::_types
    _public_enums,  \* Driver::_public_enums
    _need_glue,     \* Driver::_need_glue
    glue,           \* state of the glue coordinator (Driver::_glue)
    pc,             \* "idle", or "compiling" while compile() is on the stack
    run,            \* the compile() run on the stack: its modules and progress
    hookLog,        \* arguments of the hookNewType calls of the latest run, in order
    calls,          \* number of calls made to each external collaborator
    hooked,         \* the modules each AST hook was invoked on in the latest run
    glueAt,         \* the compile() run as it stood when glue compilation last ran,
                    \* with glue_ok, what the glue compile returned
    lastCall,       \* the latest public API call and what it returned
    before,         \* the Driver's state when the latest public API call was made
    ncalls,         \* number of public API calls made so far
    failure,        \* what a collaborator that failed in the latest API call returned
    failed,         \* a compile() of this Driver has returned an error
    main            \* spicyz main: its input files and its exit code once it returned

vars == << fs, library_paths, inputs, _types, _public_enums, _need_glue, glue,
           pc, run, hookLog, calls, hooked, glueAt, lastCall, before, ncalls,
           failure, failed, main >>

\* ------------------------------------------------------- glue coordinator

ExportedID(spicy_id, zeek_id) == [spicy_id |-> spicy_id, zeek_id |-> zeek_id]

\* The export directives of each glue-description file.
EvtExports(rpath) ==
    IF rpath = FileCEvtLib1
    THEN << ExportedID(ID("a", "Msg"), "Zeek::Msg") >>
    ELSE IF rpath = FileCEvtLib2
    THEN << ExportedID(ID("x", "Unknown"), "Zeek::Unknown"),
            ExportedID(ID("a", "Color"), "Zeek::Color") >>
    ELSE << >>

GlueInit == [evt |-> {}, exported |-> <<>>, modules |-> <<>>, compiled |-> 0]

\* GlueCompiler::loadEvtFile: on success the file's exports become known.
loadEvtFile(g, rpath, ok) ==
    IF ok
    THEN [g EXCEPT !.evt = @ \cup {rpath},
                   !.exported = @ \o SelectSeq(EvtExports(rpath),
                                     LAMBDA e : \A i \in 1..Len(g.exported) : g.exported[i] # e)]
    ELSE g

\* GlueCompiler::exportedIDs
exportedIDs(g) == g.exported

\* GlueCompiler::addSpicyModule
addSpicyModule(g, id, path) == [g EXCEPT !.modules = Append(@, << id, path >>)]

\* GlueCompiler::compile: one more execution of glue compilation.
glueCompile(g) == [g EXCEPT !.compiled = @ + 1]

\* ------------------------------------------------------------ file loading

\* hilti::rt::filesystem::exists
exists(p) == canonical(p) \in fs

\* hilti::util::findInPaths: the first directory of the list holding the file.
RECURSIVE findInPaths(_, _)
findInPaths(file, paths) ==
    IF paths = <<>> THEN [found |-> FALSE, file |-> file]
    ELSE IF exists(Join(Head(paths), file))
         THEN [found |-> TRUE, file |-> Join(Head(paths), file)]
         ELSE findInPaths(file, Tail(paths))

\* hilti::util::normalizePath
normalizePath(p) == IF exists(p) THEN canonical(p) ELSE p

\* Variant of loadFileResolve that prefers the path as given to base/path.
loadFileResolve_asGivenFirst(file, relative_to) ==
    LET file1 == IF ~exists(file) /\ ~is_empty(relative_to) /\ is_relative(file)
                    /\ exists(Join(relative_to, file))
                 THEN Join(relative_to, file)
                 ELSE file
    IN  IF ~exists(file1)
        THEN findInPaths(file1, library_paths)
        ELSE [found |-> TRUE, file |-> file1]

\* Driver::loadFile, path resolution: the file to load, or not found.
loadFileResolve(file, relative_to) ==
    LET file1 == IF ~is_empty(relative_to) /\ is_relative(file)
                    /\ exists(Join(relative_to, file))
                 THEN Join(relative_to, file)
                 ELSE file
    IN  IF ~exists(file1)
        THEN findInPaths(file1, library_paths)
        ELSE [found |-> TRUE, file |-> file1]

\* Variant of loadFileNotFound that reports the path below the base directory.
loadFileNotFound_joined(file, relative_to) ==
    Error("NotFound", "Spicy plugin cannot find file", Join(relative_to, file))

\* Driver::loadFile, the error of a failed resolution.
\* file is the value of the local variable `file` once resolution has failed.
loadFileNotFound(file, relative_to) ==
    Error("NotFound", "Spicy plugin cannot find file", file)

\* Variant of loadFileDispatch that hands every other extension to addInput.
loadFileDispatch_default(ext) ==
    IF ext = ".evt" THEN "evt" ELSE "input"

\* Variant of loadFileDispatch that compares extensions ignoring case.
loadFileDispatch_nocase(ext) ==
    LET lower == IF ext = ".SPICY" THEN ".spicy" ELSE ext
    IN  IF lower = ".evt" THEN "evt"
        ELSE IF lower \in {".spicy", ".hlt", ".hlto", ".cc", ".cxx"} THEN "input"
        ELSE "unknown"

\* Driver::loadFile, dispatch on the extension of the normalized path.
loadFileDispatch(ext) ==
    IF ext = ".evt" THEN "evt"
    ELSE IF ext = ".spicy" THEN "input"
    ELSE IF ext = ".hlt" THEN "input"
    ELSE IF ext = ".hlto" THEN "input"
    ELSE IF ext = ".cc" \/ ext = ".cxx" THEN "input"
    ELSE "unknown"

\* spicy::Driver::hasInputs
hasInputs == inputs # {}

\* The state a public API call starts in.
Snapshot ==
    [inputs |-> inputs, types |-> _types, public_enums |-> _public_enums,
     need_glue |-> _need_glue, glue |-> glue, calls |-> calls]

Call(op, file, relative_to, rpath, result) ==
    [op |-> op, file |-> file, relative_to |-> relative_to, rpath |-> rpath,
     result |-> result]

\* Variant of loadFile that hands the file to addInput before it looks at the
\* extension, and rejects an unknown extension afterwards.
loadFile_queueFirst(file, relative_to, sub_ok) ==
    /\ pc = "idle"
    /\ ncalls < MaxCalls
    /\ ncalls' = ncalls + 1
    /\ before' = Snapshot
    /\ LET resolved == loadFileResolve(file, relative_to)
           rpath    == normalizePath(resolved.file)
           action   == loadFileDispatch(rpath.ext)
       IN  IF ~resolved.found
           THEN /\ lastCall' = Call("loadFile", file, relative_to, EmptyPath,
                                    loadFileNotFound(resolved.file, relative_to))
                /\ failure' = Nothing
                /\ UNCHANGED << inputs, glue, calls >>
           ELSE IF action = "evt"
           THEN /\ glue' = loadEvtFile(glue, rpath, sub_ok)
                /\ calls' = [calls EXCEPT !.loadEvtFile = @ + 1]
                /\ lastCall' = Call("loadFile", file, relative_to, rpath,
                                    IF sub_ok THEN Nothing
                                    ELSE Error("LoadFailure", "error loading EVT file", rpath))
                /\ failure' = IF sub_ok THEN Nothing ELSE GlueFalse
                /\ UNCHANGED inputs
           ELSE /\ inputs' = IF sub_ok THEN inputs \cup {rpath} ELSE inputs
                /\ calls' = [calls EXCEPT !.addInput = @ + 1]
                /\ lastCall' = Call("loadFile", file, relative_to, rpath,
                                    IF ~sub_ok THEN AddInputError(rpath)
                                    ELSE IF action = "input" THEN Nothing
                                    ELSE Error("UnsupportedInput",
                                               "unknown file type passed to Spicy loader",
                                               rpath))
                /\ failure' = IF sub_ok THEN Nothing ELSE AddInputError(rpath)
                /\ UNCHANGED glue
    /\ UNCHANGED << failed, main, fs, library_paths, _types, _public_enums, _need_glue, pc, run,
                    hookLog, hooked, glueAt >>

\* Driver::loadFile.  sub_ok is the outcome of the subsystem the file is
\* dispatched to (GlueCompiler::loadEvtFile or spicy::Driver::addInput).
loadFile(file, relative_to, sub_ok) ==
    /\ pc = "idle"
    /\ ncalls < MaxCalls
    /\ ncalls' = ncalls + 1
    /\ before' = Snapshot
    /\ LET resolved == loadFileResolve(file, relative_to)
           rpath    == normalizePath(resolved.file)
           action   == loadFileDispatch(rpath.ext)
       IN  IF ~resolved.found
           THEN /\ lastCall' = Call("loadFile", file, relative_to, EmptyPath,
                                    loadFileNotFound(resolved.file, relative_to))
                /\ failure' = Nothing
                /\ UNCHANGED << inputs, glue, calls >>
           ELSE IF action = "evt"
           THEN /\ glue' = loadEvtFile(glue, rpath, sub_ok)
                /\ calls' = [calls EXCEPT !.loadEvtFile = @ + 1]
                /\ lastCall' = Call("loadFile", file, relative_to, rpath,
                                    IF sub_ok THEN Nothing
                                    ELSE Error("LoadFailure", "error loading EVT file", rpath))
                /\ failure' = IF sub_ok THEN Nothing ELSE GlueFalse
                /\ UNCHANGED inputs
           ELSE IF action = "input"
           THEN /\ inputs' = IF sub_ok THEN inputs \cup {rpath} ELSE inputs
                /\ calls' = [calls EXCEPT !.addInput = @ + 1]
                /\ lastCall' = Call("loadFile", file, relative_to, rpath,
                                    IF sub_ok THEN Nothing ELSE AddInputError(rpath))
                /\ failure' = IF sub_ok THEN Nothing ELSE AddInputError(rpath)
                /\ UNCHANGED glue
           ELSE /\ lastCall' = Call("loadFile", file, relative_to, rpath,
                                    Error("UnsupportedInput",
                                          "unknown file type passed to Spicy loader", rpath))
                /\ failure' = Nothing
                /\ UNCHANGED << inputs, glue, calls >>
    /\ UNCHANGED << failed, main, fs, library_paths, _types, _public_enums, _need_glue, pc, run,
                    hookLog, hooked, glueAt >>

\* ---------------------------------------------------------- type registry

\* Variant of Put that inserts without replacing (std::map::insert).
Put_keepFirst(reg, ti) ==
    [k \in DOMAIN reg \cup {ti.id} |-> IF k \in DOMAIN reg THEN reg[k] ELSE ti]

\* _types[ti.id] = ti
Put(reg, ti) ==
    [k \in DOMAIN reg \cup {ti.id} |-> IF k = ti.id THEN ti ELSE reg[k]]

\* The loop "for ti in v.types: _types[ti.id] = ti".
RECURSIVE PutAll(_, _)
PutAll(reg, tis) ==
    IF tis = <<>> THEN reg ELSE PutAll(Put(reg, Head(tis)), Tail(tis))

\* Driver::lookupType
lookupType(id) ==
    IF id \in DOMAIN _types
    THEN [ok |-> TRUE, value |-> _types[id], error |-> Nothing]
    ELSE [ok |-> FALSE, value |-> << >>, error |-> Error("UnknownType", "unknown type", EmptyPath)]

\* Variant of lookupType<T> without the test of the type's kind.
lookupTypeT_noKindCheck(T, id) == lookupType(id)

\* Driver::lookupType<T>: lookupType, then the test ti->type.isA<T>().
lookupTypeT(T, id) ==
    LET ti == lookupType(id)
    IN  IF ~ti.ok
        THEN [ok |-> FALSE, value |-> << >>, error |-> ti.error]
        ELSE IF ti.value.type # T
        THEN [ok |-> FALSE, value |-> << >>,
              error |-> Error("WrongKind", "is not of expected type", EmptyPath)]
        ELSE ti

\* std::map iterates in key order: the ids sorted lexicographically.
IDOrder ==
    << ID("a", "Color"), ID("a", "Flags"), ID("a", "Msg"), ID("d", "Level"),
       ID("hilti", "Kind"), ID("mem", "Tmp"), ID("spicy_rt", "Kind"),
       ID("x", "Unknown"), ID("zeek_rt", "Kind") >>

\* Variant of types over a container that iterates from the largest key down.
types_reverse ==
    LET keys == SelectSeq(IDOrder, LAMBDA k : k \in DOMAIN _types)
    IN  [i \in 1..Len(keys) |-> _types[keys[Len(keys) + 1 - i]]]

\* Driver::types
types ==
    LET keys == SelectSeq(IDOrder, LAMBDA k : k \in DOMAIN _types)
    IN  [i \in 1..Len(keys) |-> _types[keys[i]]]

\* Variant of exportedTypes without the automatic export of public enums.
exportedTypes_explicitOnly ==
    LET known == SelectSeq(exportedIDs(glue), LAMBDA e : e.spicy_id \in DOMAIN _types)
    IN  [i \in 1..Len(known) |-> << _types[known[i].spicy_id], known[i].zeek_id >>]

\* Driver::exportedTypes: (type, zeek id) pairs, explicit exports first, then
\* every entry of _public_enums.
exportedTypes ==
    LET known == SelectSeq(exportedIDs(glue), LAMBDA e : e.spicy_id \in DOMAIN _types)
    IN  [i \in 1..Len(known) |-> << _types[known[i].spicy_id], known[i].zeek_id >>]
        \o [i \in 1..Len(_public_enums) |-> << _public_enums[i], _public_enums[i].id >>]

\* ------------------------------------------------------------------- hooks

BuiltinModules == { "hilti", "spicy_rt", "zeek_rt" }

\* Variant of VisitorTypes that does not test for the internal modules.
VisitorTypes_all(unit, is_resolved) ==
    [i \in 1..Len(unit.decls) |-> TypeInfo(unit, unit.decls[i], is_resolved)]

\* VisitorTypes: one TypeInfo per type declaration, none for internal modules.
VisitorTypes(unit, is_resolved) ==
    IF unit.id \in BuiltinModules THEN << >>
    ELSE [i \in 1..Len(unit.decls) |-> TypeInfo(unit, unit.decls[i], is_resolved)]

\* Variant of IsPublicEnum that tests for the wrong linkage.
IsPublicEnum_private(ti) == ti.type = "enum" /\ ti.linkage = "private"

\* The test that makes the pre-resolution hook auto-export a type.
IsPublicEnum(ti) == ti.type = "enum" /\ ti.linkage = "public"

\* Variant of the pre-resolution hook without the test for an empty path.
hookNewASTPreCompilation_noPathTest(unit) ==
    IF unit.ext # ".spicy"
    THEN UNCHANGED << _types, _public_enums, hookLog >>
    ELSE LET tis == VisitorTypes(unit, FALSE)
         IN  /\ _types' = PutAll(_types, tis)
             /\ _public_enums' = _public_enums \o SelectSeq(tis, IsPublicEnum)
             /\ hookLog' = hookLog \o tis

\* Variant of the pre-resolution hook without the test of the extension.
hookNewASTPreCompilation_noExtensionTest(unit) ==
    IF is_empty(unit.path)
    THEN UNCHANGED << _types, _public_enums, hookLog >>
    ELSE LET tis == VisitorTypes(unit, FALSE)
         IN  /\ _types' = PutAll(_types, tis)
             /\ _public_enums' = _public_enums \o SelectSeq(tis, IsPublicEnum)
             /\ hookLog' = hookLog \o tis

\* Driver::hookNewASTPreCompilation
hookNewASTPreCompilation(unit) ==
    IF unit.ext # ".spicy" \/ is_empty(unit.path)
    THEN UNCHANGED << _types, _public_enums, hookLog >>
    ELSE LET tis == VisitorTypes(unit, FALSE)
         IN  /\ _types' = PutAll(_types, tis)
             /\ _public_enums' = _public_enums \o SelectSeq(tis, IsPublicEnum)
             /\ hookLog' = hookLog \o tis

\* Variant of the post-resolution hook that does not call hookNewType.
hookNewASTPostCompilation_noNewType(unit) ==
    IF unit.ext # ".spicy" \/ is_empty(unit.path)
    THEN UNCHANGED << _types, _public_enums, hookLog, glue >>
    ELSE LET tis == VisitorTypes(unit, TRUE)
         IN  /\ _types' = PutAll(_types, tis)
             /\ UNCHANGED hookLog
             /\ glue' = addSpicyModule(glue, unit.id, unit.path)
             /\ UNCHANGED _public_enums

\* Variant of the post-resolution hook that inserts without replacing.
hookNewASTPostCompilation_insertOnly(unit) ==
    IF unit.ext # ".spicy" \/ is_empty(unit.path)
    THEN UNCHANGED << _types, _public_enums, hookLog, glue >>
    ELSE LET tis == VisitorTypes(unit, TRUE)
             new == SelectSeq(tis, LAMBDA ti : ti.id \notin DOMAIN _types)
         IN  /\ _types' = PutAll(_types, new)
             /\ hookLog' = hookLog \o tis
             /\ glue' = addSpicyModule(glue, unit.id, unit.path)
             /\ UNCHANGED _public_enums

\* Variant of the post-resolution hook that also replaces the records of the
\* enum list by the resolved records of the same name.
hookNewASTPostCompilation_refreshEnums(unit) ==
    IF unit.ext # ".spicy" \/ is_empty(unit.path)
    THEN UNCHANGED << _types, _public_enums, hookLog, glue >>
    ELSE LET tis == VisitorTypes(unit, TRUE)
         IN  /\ _types' = PutAll(_types, tis)
             /\ hookLog' = hookLog \o tis
             /\ glue' = addSpicyModule(glue, unit.id, unit.path)
             /\ _public_enums' =
                   [k \in 1..Len(_public_enums) |->
                      IF \E i \in 1..Len(tis) : tis[i].id = _public_enums[k].id
                      THEN tis[CHOOSE i \in 1..Len(tis) : tis[i].id = _public_enums[k].id]
                      ELSE _public_enums[k]]

\* Driver::hookNewASTPostCompilation
hookNewASTPostCompilation(unit) ==
    IF unit.ext # ".spicy" \/ is_empty(unit.path)
    THEN UNCHANGED << _types, _public_enums, hookLog, glue >>
    ELSE LET tis == VisitorTypes(unit, TRUE)
         IN  /\ _types' = PutAll(_types, tis)
             /\ hookLog' = hookLog \o tis
             /\ glue' = addSpicyModule(glue, unit.id, unit.path)
             /\ UNCHANGED _public_enums

\* Variant of hookCompilationFinished that never clears the latch.
hookCompilationFinished_noLatch(glue_ok, rc) ==
    IF ~_need_glue
    THEN /\ rc = Nothing
         /\ UNCHANGED << _need_glue, glue >>
    ELSE /\ UNCHANGED _need_glue
         /\ glue' = glueCompile(glue)
         /\ rc = IF glue_ok THEN Nothing
                 ELSE Error("GlueFailure", "glue compilation failed", EmptyPath)

\* Variant of hookCompilationFinished with the latch test inverted.
hookCompilationFinished_inverted(glue_ok, rc) ==
    IF _need_glue
    THEN /\ rc = Nothing
         /\ UNCHANGED << _need_glue, glue >>
    ELSE /\ _need_glue' = FALSE
         /\ glue' = glueCompile(glue)
         /\ rc = IF glue_ok THEN Nothing
                 ELSE Error("GlueFailure", "glue compilation failed", EmptyPath)

\* Variant of hookCompilationFinished that ignores what the glue compile returns.
hookCompilationFinished_ignoreResult(glue_ok, rc) ==
    IF ~_need_glue
    THEN /\ rc = Nothing
         /\ UNCHANGED << _need_glue, glue >>
    ELSE /\ _need_glue' = FALSE
         /\ glue' = glueCompile(glue)
         /\ rc = Nothing

\* Variant of hookCompilationFinished that clears the latch only after the
\* glue compile has succeeded.
hookCompilationFinished_clearOnSuccess(glue_ok, rc) ==
    IF ~_need_glue
    THEN /\ rc = Nothing
         /\ UNCHANGED << _need_glue, glue >>
    ELSE /\ _need_glue' = ~glue_ok
         /\ glue' = glueCompile(glue)
         /\ rc = IF glue_ok THEN Nothing
                 ELSE Error("GlueFailure", "glue compilation failed", EmptyPath)

\* Driver::hookCompilationFinished.  glue_ok is what GlueCompiler::compile
\* returns if it is run; rc is the hook's result.
hookCompilationFinished(glue_ok, rc) ==
    IF ~_need_glue
    THEN /\ rc = Nothing
         /\ UNCHANGED << _need_glue, glue >>
    ELSE /\ _need_glue' = FALSE
         /\ glue' = glueCompile(glue)
         /\ rc = IF glue_ok THEN Nothing
                 ELSE Error("GlueFailure", "glue compilation failed", EmptyPath)

\* ----------------------------------------------------------------- compile

\* The sets of modules one whole-program compile may process: up to MaxUnits
\* modules, or module a together with one of the runtime-library modules.
RunChoices ==
    { U \in SUBSET Units : 1 <= Cardinality(U) /\ Cardinality(U) <= MaxUnits }
    \cup { { UnitA, u } : u \in RuntimeUnits }

NoRun == [units |-> {}, prePending |-> {}, postPending |-> {}, finished |-> 0]

\* Variant of compileResult that reports its own error for any failure.
compileResult_wrapped(x) ==
    IF x.kind # "ok"
    THEN Error("CompileFailure", "Spicy compilation failed", EmptyPath)
    ELSE Nothing

\* Driver::compile, its result from the result x of spicy::Driver::compile.
compileResult(x) == IF x.kind # "ok" THEN x ELSE Nothing

\* Variant of compile without the hasInputs test.
compile_noInputCheck ==
    /\ pc = "idle"
    /\ ncalls < MaxCalls
    /\ ncalls' = ncalls + 1
    /\ before' = Snapshot
    /\ failure' = Nothing
    /\ \E U \in RunChoices :
           run' = [units |-> U, prePending |-> U, postPending |-> U, finished |-> 0]
    /\ pc' = "compiling"
    /\ hookLog' = << >>
    /\ hooked' = [pre |-> {}, post |-> {}]
    /\ calls' = [calls EXCEPT !.compile = @ + 1]
    /\ lastCall' = Call("compile", EmptyPath, EmptyPath, EmptyPath,
                        Error("pending", "", EmptyPath))
    /\ UNCHANGED << failed, main, fs, library_paths, inputs, _types, _public_enums, _need_glue,
                    glue, glueAt >>

\* Driver::compile, up to the call of spicy::Driver::compile: a no-op success
\* without inputs, else the underlying compiler starts on a program U.
compile ==
    /\ pc = "idle"
    /\ ncalls < MaxCalls
    /\ ncalls' = ncalls + 1
    /\ before' = Snapshot
    /\ failure' = Nothing
    /\ IF ~hasInputs
       THEN /\ lastCall' = Call("compile", EmptyPath, EmptyPath, EmptyPath, Nothing)
            /\ UNCHANGED << pc, run, calls, hookLog, hooked >>
       ELSE /\ \E U \in RunChoices :
                   run' = [units |-> U, prePending |-> U, postPending |-> U,
                           finished |-> 0]
            /\ pc' = "compiling"
            /\ hookLog' = << >>
            /\ hooked' = [pre |-> {}, post |-> {}]
            /\ calls' = [calls EXCEPT !.compile = @ + 1]
            /\ lastCall' = Call("compile", EmptyPath, EmptyPath, EmptyPath,
                                Error("pending", "", EmptyPath))
    /\ UNCHANGED << failed, main, fs, library_paths, inputs, _types, _public_enums, _need_glue,
                    glue, glueAt >>

\* spicy::Driver::compile calls the pre-resolution hook once per module,
\* before any module is resolved.
CompilerPreHook ==
    /\ pc = "compiling"
    /\ \E u \in run.prePending :
          /\ hookNewASTPreCompilation(u)
          /\ run' = [run EXCEPT !.prePending = @ \ {u}]
          /\ hooked' = [hooked EXCEPT !.pre = @ \cup {u}]
    /\ UNCHANGED << failed, main, fs, library_paths, inputs, _need_glue, glue, pc, calls, glueAt,
                    lastCall, before, ncalls, failure >>

\* spicy::Driver::compile calls the post-resolution hook once per module,
\* after the whole program is resolved.
CompilerPostHook ==
    /\ pc = "compiling"
    /\ run.prePending = {}
    /\ \E u \in run.postPending :
          /\ hookNewASTPostCompilation(u)
          /\ run' = [run EXCEPT !.postPending = @ \ {u}]
          /\ hooked' = [hooked EXCEPT !.post = @ \cup {u}]
    /\ UNCHANGED << failed, main, fs, library_paths, inputs, _need_glue, pc,
                    calls, glueAt, lastCall, before, ncalls, failure >>

\* spicy::Driver::compile calls hookCompilationFinished, once per compiler
\* plugin, after all modules are resolved; an error ends compile() with it.
CompilerFinishedHook ==
    /\ pc = "compiling"
    /\ run.prePending = {} /\ run.postPending = {}
    /\ run.finished < MaxFinished
    /\ \E glue_ok \in BOOLEAN, rc \in {Nothing, Error("GlueFailure", "glue compilation failed", EmptyPath)} :
          /\ hookCompilationFinished(glue_ok, rc)
          /\ failure' = IF glue'.compiled # glue.compiled /\ ~glue_ok
                        THEN GlueFalse ELSE failure
          /\ glueAt' = IF glue'.compiled # glue.compiled
                       THEN [units |-> run.units, prePending |-> run.prePending,
                             postPending |-> run.postPending,
                             finished |-> run.finished, glue_ok |-> glue_ok]
                       ELSE glueAt
          /\ IF rc.kind = "ok"
             THEN /\ run' = [run EXCEPT !.finished = @ + 1]
                  /\ UNCHANGED << pc, lastCall, failed >>
             ELSE /\ run' = NoRun
                  /\ pc' = "idle"
                  /\ failed' = TRUE
                  /\ lastCall' = [lastCall EXCEPT !.result = compileResult(rc)]
    /\ calls' = [calls EXCEPT !.finished = @ + 1]
    /\ UNCHANGED << main, fs, library_paths, inputs, _types, _public_enums, hookLog, hooked,
                    before, ncalls >>

\* spicy::Driver::compile fails in the compiler itself, either in resolution
\* (all modules parsed, none resolved) or in code generation (after the
\* hooks), and Driver::compile returns that error.
CompilerFails ==
    /\ pc = "compiling"
    /\ run.prePending = {}
    /\ run.postPending \in {run.units, {}}
    /\ pc' = "idle"
    /\ lastCall' = [lastCall EXCEPT !.result = compileResult(CompileError)]
    /\ failure' = CompileError
    /\ failed' = TRUE
    /\ run' = NoRun
    /\ UNCHANGED << main, fs, library_paths, inputs, _types, _public_enums, _need_glue,
                    glue, hookLog, calls, hooked, glueAt, before, ncalls >>

\* spicy::Driver::compile succeeds, and so does Driver::compile.
CompilerSucceeds ==
    /\ pc = "compiling"
    /\ run.prePending = {} /\ run.postPending = {}
    /\ run.finished >= 1
    /\ pc' = "idle"
    /\ lastCall' = [lastCall EXCEPT !.result = compileResult(Nothing)]
    /\ run' = NoRun
    /\ UNCHANGED << failed, main, fs, library_paths, inputs, _types, _public_enums, _need_glue,
                    glue, hookLog, calls, hooked, glueAt, before, ncalls, failure >>

\* --------------------------------------------------------- registry reads

\* The names and expected kinds callers look up; "any" stands for the lookup
\* without an expected kind.
LookupIDs == { ID("a", "Color"), ID("a", "Flags") }
LookupKinds == { "any", "enum" }

LookupCall(id, T, result) ==
    [op |-> "lookupType", file |-> EmptyPath, relative_to |-> EmptyPath,
     rpath |-> EmptyPath, id |-> id, T |-> T, result |-> result]

\* A caller looks a name up between the other calls, with Driver::lookupType
\* or with Driver::lookupType<T>; neither assigns to a member.
LookupType ==
    /\ pc = "idle"
    /\ ncalls < MaxCalls
    /\ ncalls' = ncalls + 1
    /\ before' = Snapshot
    /\ failure' = Nothing
    /\ \E id \in LookupIDs, T \in LookupKinds :
          lastCall' = LookupCall(id, T, IF T = "any" THEN lookupType(id)
                                        ELSE lookupTypeT(T, id))
    /\ UNCHANGED << failed, main, fs, library_paths, inputs, _types, _public_enums, _need_glue,
                    glue, pc, run, hookLog, calls, hooked, glueAt >>

\* ----------------------------------------------------------- specification

\* spicyz main not running: the Driver is used by other callers.
NoMain == [pc |-> "none", inputs |-> << >>, next |-> 0, exit |-> -1]

\* The Driver after construction.
InitDriver ==
    /\ fs \in FileSystems
    /\ library_paths \in LibraryPathChoices
    /\ inputs = {}
    /\ _types = << >>
    /\ _public_enums = << >>
    /\ _need_glue = TRUE
    /\ glue = GlueInit
    /\ pc = "idle"
    /\ run = NoRun
    /\ hookLog = << >>
    /\ calls = [addInput |-> 0, loadEvtFile |-> 0, compile |-> 0, finished |-> 0]
    /\ hooked = [pre |-> {}, post |-> {}]
    /\ glueAt = NoRun
    /\ lastCall = Call("none", EmptyPath, EmptyPath, EmptyPath, Nothing)
    /\ before = [inputs |-> {}, types |-> << >>, public_enums |-> << >>,
                 need_glue |-> TRUE, glue |-> GlueInit,
                 calls |-> [addInput |-> 0, loadEvtFile |-> 0, compile |-> 0, finished |-> 0]]
    /\ ncalls = 0
    /\ failure = Nothing
    /\ failed = FALSE

Init == InitDriver /\ main = NoMain

LoadFile ==
    \E file \in RequestFiles, relative_to \in RelativeTos, sub_ok \in BOOLEAN :
        loadFile(file, relative_to, sub_ok)

Next ==
    \/ LoadFile
    \/ compile
    \/ LookupType
    \/ CompilerPreHook
    \/ CompilerPostHook
    \/ CompilerFinishedHook
    \/ CompilerFails
    \/ CompilerSucceeds

Spec == Init /\ [][Next]_vars

\* ------------------------------------------------------------- spicyz main

\* Number of input files on one spicyz command line.
MaxInputs == 2

\* Files named on a spicyz command line.
MainFiles == { P(FALSE, <<".">>, "a", ".spicy"),
               P(FALSE, << >>, "c", ".evt"),
               P(FALSE, << >>, "n", ".txt") }

CommandLines == UNION { [1..n -> MainFiles] : n \in 0..MaxInputs }

\* All variables of the Driver; main's own steps leave them alone.
driverVars == << fs, library_paths, inputs, _types, _public_enums, _need_glue,
                 glue, pc, run, hookLog, calls, hooked, glueAt, lastCall,
                 before, ncalls, failure, failed >>

\* parseOptions(): an unknown option is an error; an informational option
\* returns early, before any input is collected; otherwise the remaining
\* arguments are the inputs and there must be at least one.
parseOptions(argv_ok, informational, ins) ==
    IF ~argv_ok THEN [rc |-> Error("Options", "could not parse options", EmptyPath),
                      inputs |-> << >>]
    ELSE IF informational THEN [rc |-> Nothing, inputs |-> << >>]
    ELSE IF ins = << >> THEN [rc |-> Error("Options", "no input file given", EmptyPath),
                              inputs |-> ins]
    ELSE [rc |-> Nothing, inputs |-> ins]

\* main() before parseOptions().
StartMain == [pc |-> "parseOptions", inputs |-> << >>, next |-> 0, exit |-> -1]

InitMain == InitDriver /\ main = StartMain

\* main(): parse the options; on failure log and return 1.
MainParseOptions ==
    /\ main.pc = "parseOptions"
    /\ \E argv_ok \in BOOLEAN, informational \in BOOLEAN, ins \in CommandLines :
          LET o == parseOptions(argv_ok, informational, ins)
          IN  main' = IF o.rc.kind # "ok"
                      THEN [main EXCEPT !.pc = "returned", !.exit = 1]
                      ELSE [main EXCEPT !.pc = "running", !.inputs = o.inputs]
    /\ UNCHANGED driverVars

\* main(): the body of the for loop calls driver.loadFile(p) on the next input.
MainLoadFile ==
    /\ main.pc = "running"
    /\ ncalls = main.next
    /\ main.next < Len(main.inputs)
    /\ \E sub_ok \in BOOLEAN :
          loadFile(main.inputs[main.next + 1], EmptyPath, sub_ok)

\* Mutant of MainLoadFileReturned: a failed loadFile is logged and the loop goes on.
MainLoadFileReturned_continue ==
    /\ main.pc = "running"
    /\ lastCall.op = "loadFile"
    /\ ncalls = main.next + 1
    /\ main' = [main EXCEPT !.next = @ + 1]
    /\ UNCHANGED driverVars

\* main(): test the result of loadFile; on failure log and return 1,
\* otherwise continue with the next input.
MainLoadFileReturned ==
    /\ main.pc = "running"
    /\ lastCall.op = "loadFile"
    /\ ncalls = main.next + 1
    /\ main' = IF lastCall.result.kind # "ok"
               THEN [main EXCEPT !.pc = "returned", !.exit = 1]
               ELSE [main EXCEPT !.next = @ + 1]
    /\ UNCHANGED driverVars

\* main(): after the loop, call driver.compile().
MainCompile ==
    /\ main.pc = "running"
    /\ ncalls = main.next
    /\ main.next = Len(main.inputs)
    /\ compile

\* main(): test the result of compile(); on failure log and return 1, else return 0.
MainCompileReturned ==
    /\ main.pc = "running"
    /\ lastCall.op = "compile"
    /\ pc = "idle"
    /\ main' = [main EXCEPT !.pc = "returned",
                            !.exit = IF lastCall.result.kind # "ok" THEN 1 ELSE 0]
    /\ UNCHANGED driverVars

NextMain ==
    \/ MainParseOptions
    \/ MainLoadFile
    \/ MainLoadFileReturned
    \/ MainCompile
    \/ CompilerPreHook
    \/ CompilerPostHook
    \/ CompilerFinishedHook
    \/ CompilerFails
    \/ CompilerSucceeds
    \/ MainCompileReturned

SpecMain == InitMain /\ [][NextMain]_vars

\* ------------------------------------------------------------ properties

\* The extensions of the dispatch table.
GlueExtensions == { ".evt" }
InputExtensions == { ".spicy", ".hlt", ".hlto", ".cc", ".cxx" }
DispatchExtensions == GlueExtensions \cup InputExtensions

\* base/path is tried first: a base directory is given, the path is relative
\* and base/path exists.
BaseCandidate(file, relative_to) ==
    ~is_empty(relative_to) /\ is_relative(file) /\ exists(Join(relative_to, file))

\* Some candidate for the requested file exists.
HasCandidate(file, relative_to) ==
    \/ BaseCandidate(file, relative_to)
    \/ exists(file)
    \/ \E i \in 1..Len(library_paths) : exists(Join(library_paths[i], file))

\* The candidate the resolution order selects, when there is one.
ExpectedFile(file, relative_to) ==
    IF BaseCandidate(file, relative_to) THEN Join(relative_to, file)
    ELSE IF exists(file) THEN file
    ELSE LET i == CHOOSE i \in 1..Len(library_paths) :
                     /\ exists(Join(library_paths[i], file))
                     /\ \A j \in 1..(i - 1) : ~exists(Join(library_paths[j], file))
         IN  Join(library_paths[i], file)

\* The latest loadFile call left the compiler queue and the collaborators alone.
LoadTouchedNothing ==
    /\ inputs = before.inputs
    /\ calls = before.calls
    /\ glue = before.glue

AllIDs == { IDOrder[i] : i \in 1..Len(IDOrder) }

\* Names with a record in the exported-only listing.
ListedNames == { exportedTypes[k][1].id : k \in 1..Len(exportedTypes) }

\* Names the glue coordinator's export list holds.
GlueExportNames == { exportedIDs(glue)[k].spicy_id : k \in 1..Len(exportedIDs(glue)) }

\* Names in the enum auto-export list.
EnumNames == { _public_enums[k].id : k \in 1..Len(_public_enums) }

\* Positions of the hookNewType calls of the latest run that recorded name n
\* resolved.
ResolvedAt(n) == { j \in 1..Len(hookLog) : hookLog[j].id = n /\ hookLog[j].is_resolved }

Max(S) == CHOOSE m \in S : \A k \in S : k <= m

\* C1: once compile() has returned, every name the pre-resolution hook
\* recorded in that run and the post-resolution hook recorded afterwards is
\* looked up as the post-resolution record (is_resolved = TRUE).
C1_PostRecordWins ==
    pc = "idle" =>
        \A i \in 1..Len(hookLog) :
            ( /\ ~hookLog[i].is_resolved
              /\ \E j \in ResolvedAt(hookLog[i].id) : j > i )
            => LET r == lookupType(hookLog[i].id)
               IN  /\ r.ok
                   /\ r.value.is_resolved
                   /\ r.value = hookLog[Max(ResolvedAt(hookLog[i].id))]

\* A compile() has returned success with a name recorded by both passes.
C1_Witness ==
    /\ pc = "idle" /\ lastCall.op = "compile" /\ lastCall.result = Nothing
    /\ \E i \in 1..Len(hookLog) :
          /\ ~hookLog[i].is_resolved
          /\ \E j \in ResolvedAt(hookLog[i].id) : j > i
          /\ _types[hookLog[i].id].is_resolved

\* C2: glue compilation is executed at most once on a Driver, however often
\* hookCompilationFinished is invoked.
C2_GlueCompileAtMostOnce == glue.compiled <= 1

\* hookCompilationFinished has been invoked more than once.
C2_Witness == calls.finished >= 2 /\ glue.compiled = 1

C4_Original ==
    (lastCall.op = "loadFile" /\ lastCall.file.ext \notin DispatchExtensions)
    => /\ lastCall.result.kind = "UnsupportedInput"
       /\ LoadTouchedNothing

\* C4, amended: every loadFile of a file that resolves to an existing file and
\* whose extension is not in the dispatch table fails with UnsupportedInput
\* naming the resolved path, and queues nothing.
C4_UnsupportedInput ==
    ( /\ lastCall.op = "loadFile"
      /\ lastCall.file.ext \notin DispatchExtensions
      /\ HasCandidate(lastCall.file, lastCall.relative_to) )
    => /\ lastCall.result.kind = "UnsupportedInput"
       /\ lastCall.result.path = canonical(ExpectedFile(lastCall.file, lastCall.relative_to))
       /\ LoadTouchedNothing

\* An existing file with an upper-case source extension was rejected.
C4_Witness ==
    /\ lastCall.op = "loadFile"
    /\ lastCall.file.ext = ".SPICY"
    /\ lastCall.result.kind = "UnsupportedInput"
    /\ lastCall.result.path = FileUUpperLib1

\* C5: a loadFile that resolves to an existing file dispatches on the
\* extension, case-sensitively: a glue-description file makes exactly one
\* loadEvtFile call and is not queued; a source, intermediate-representation,
\* precompiled or native file makes exactly one addInput call and no glue call;
\* any other extension makes neither call.
C5_Dispatch ==
    (lastCall.op = "loadFile" /\ HasCandidate(lastCall.file, lastCall.relative_to))
    => LET ext == lastCall.file.ext
       IN  /\ ext \in GlueExtensions =>
                /\ calls.loadEvtFile = before.calls.loadEvtFile + 1
                /\ calls.addInput = before.calls.addInput
                /\ inputs = before.inputs
                /\ lastCall.result = Nothing => lastCall.rpath \in glue.evt
           /\ ext \in InputExtensions =>
                /\ calls.addInput = before.calls.addInput + 1
                /\ calls.loadEvtFile = before.calls.loadEvtFile
                /\ glue = before.glue
                /\ inputs = IF lastCall.result = Nothing
                            THEN before.inputs \cup {lastCall.rpath}
                            ELSE before.inputs
           /\ ext \notin DispatchExtensions => calls = before.calls

\* A native file was queued after a glue-description file was loaded.
C5_Witness ==
    /\ lastCall.op = "loadFile"
    /\ lastCall.file.ext = ".cxx"
    /\ lastCall.result = Nothing
    /\ lastCall.rpath \in inputs
    /\ glue.evt # {}

\* C6: loadFile uses base/path if a base directory is given, the path is
\* relative and base/path exists; else the path as given if it exists; else
\* the path below the first library directory that holds it; with no library
\* directories it fails exactly when neither base/path nor the path exists.
C6_ResolutionOrder ==
    lastCall.op = "loadFile"
    => LET file == lastCall.file
           relative_to == lastCall.relative_to
       IN  /\ (lastCall.result.kind = "NotFound") <=> ~HasCandidate(file, relative_to)
           /\ HasCandidate(file, relative_to)
                => lastCall.rpath = canonical(ExpectedFile(file, relative_to))
           /\ library_paths = << >>
                => ( (lastCall.result.kind = "NotFound")
                     <=> ~(BaseCandidate(file, relative_to) \/ exists(file)) )

\* A file held by both library directories was taken from the first.
C6_Witness ==
    /\ lastCall.op = "loadFile"
    /\ lastCall.file.stem = "c"
    /\ FileCEvtLib1 \in fs /\ FileCEvtLib2 \in fs
    /\ library_paths = << Lib1, Lib2 >>
    /\ lastCall.rpath = FileCEvtLib1

\* C7: when no candidate exists, loadFile fails with NotFound carrying the
\* requested path, queues nothing and calls neither addInput nor the glue
\* coordinator.
C7_NotFound ==
    (lastCall.op = "loadFile" /\ ~HasCandidate(lastCall.file, lastCall.relative_to))
    => /\ lastCall.result.kind = "NotFound"
       /\ lastCall.result.path = lastCall.file
       /\ LoadTouchedNothing

\* A relative path was not found although a base directory was given.
C7_Witness ==
    /\ lastCall.op = "loadFile"
    /\ lastCall.relative_to = Base
    /\ is_relative(lastCall.file)
    /\ lastCall.result.kind = "NotFound"
    /\ library_paths # << >>

\* C8: a compile() made while no compiler input was ever queued returns
\* success without invoking the underlying compile, firing a hook or running
\* glue compilation, and leaves registry, enum list and latch unchanged.
C8_CompileNoInputs ==
    (lastCall.op = "compile" /\ before.inputs = {})
    => /\ pc = "idle"
       /\ lastCall.result = Nothing
       /\ calls = before.calls
       /\ hookLog = << >>
       /\ hooked = [pre |-> {}, post |-> {}]
       /\ _types = before.types
       /\ _public_enums = before.public_enums
       /\ _need_glue = before.need_glue
       /\ glue = before.glue

\* compile() was called after only glue-description files were loaded.
C8_Witness ==
    /\ lastCall.op = "compile"
    /\ before.inputs = {}
    /\ glue.evt # {}

\* The public top-level enums of a module.
PublicEnums(u) ==
    { ID(u.id, u.decls[i].id) :
        i \in { k \in 1..Len(u.decls) :
                  u.decls[k].kind = "enum" /\ u.decls[k].linkage = "public" } }

\* A source module loaded from a file, outside the internal modules.
IsUserSourceModule(u) ==
    u.ext = ".spicy" /\ ~is_empty(u.path) /\ u.id \notin BuiltinModules

C10_Original ==
    \A n \in AllIDs : (n \in ListedNames) <=> (n \in GlueExportNames \/ n \in EnumNames)

\* C10, amended: a name is in the exported-only listing iff it is in the glue
\* coordinator's export list and recorded in the registry, or in the enum
\* auto-export list; a recorded public non-enum type that the glue coordinator
\* does not export is not listed.
C10_ExportedListing ==
    /\ \A n \in AllIDs :
          (n \in ListedNames)
          <=> ((n \in GlueExportNames /\ n \in DOMAIN _types) \/ n \in EnumNames)
    /\ \A n \in DOMAIN _types :
          (_types[n].type # "enum" /\ n \notin EnumNames /\ n \notin GlueExportNames)
          => n \notin ListedNames

\* A recorded public unit type is not listed, a public enum is, and an
\* exported name without a registry record is not.
C10_Witness ==
    /\ ID("a", "Msg") \in DOMAIN _types
    /\ _types[ID("a", "Msg")].linkage = "public"
    /\ ID("a", "Msg") \notin ListedNames
    /\ ID("a", "Color") \in ListedNames
    /\ ID("x", "Unknown") \in GlueExportNames
    /\ ID("x", "Unknown") \notin ListedNames

\* The records of the full listing and of the exported-only listing.
TypesRecords == { types[i] : i \in 1..Len(types) }
ExportedRecords == { exportedTypes[k][1] : k \in 1..Len(exportedTypes) }

\* C11: every record the exported-only listing returns is also a record of
\* the full listing.
C11_ExportedSubsetOfTypes == ExportedRecords \subseteq TypesRecords

\* Position of the first hookNewType call of the latest run for name n.
FirstLogged(n) ==
    CHOOSE i \in 1..Len(hookLog) :
        /\ hookLog[i].id = n
        /\ \A j \in 1..(i - 1) : hookLog[j].id # n

\* Name n was first inserted into the registry by the latest compile().
NewInRun(n) == n \in DOMAIN _types /\ n \notin DOMAIN before.types

\* Name n was first inserted into the registry before name m was.
InsertedBefore(n, m) ==
    \/ n \in DOMAIN before.types /\ NewInRun(m)
    \/ NewInRun(n) /\ NewInRun(m) /\ FirstLogged(n) < FirstLogged(m)

\* Position of the record of name n in the full listing.
PositionInTypes(n) == CHOOSE i \in 1..Len(types) : types[i].id = n

\* The strings of the names in use, in the order std::string compares them.
StringOrder ==
    << "Color", "Flags", "Kind", "Level", "Msg", "Tmp", "Unknown",
       "a", "d", "hilti", "mem", "spicy_rt", "x", "zeek_rt" >>

StringRank(s) == CHOOSE i \in 1..Len(StringOrder) : StringOrder[i] = s

\* operator< of two fully-qualified names.
IDLess(n, m) ==
    \/ StringRank(n[1]) < StringRank(m[1])
    \/ n[1] = m[1] /\ StringRank(n[2]) < StringRank(m[2])

\* C12 as stated: of two recorded names, the one inserted into the registry
\* first comes first in the full listing.
C12_Original ==
    lastCall.op = "compile"
    => \A n, m \in DOMAIN _types :
          InsertedBefore(n, m) => PositionInTypes(n) < PositionInTypes(m)

\* C12, amended: the full listing returns exactly the registry's records, one
\* per recorded name, in ascending order of the fully-qualified names,
\* whatever the order of insertion.
C12_KeyOrder ==
    /\ Len(types) = Cardinality(DOMAIN _types)
    /\ \A i \in 1..Len(types) :
          /\ types[i].id \in DOMAIN _types
          /\ types[i] = _types[types[i].id]
    /\ \A i, j \in 1..Len(types) : i < j => IDLess(types[i].id, types[j].id)

\* a::Msg was inserted before a::Flags and is listed after it.
C12_Witness ==
    /\ lastCall.op = "compile"
    /\ InsertedBefore(ID("a", "Msg"), ID("a", "Flags"))
    /\ PositionInTypes(ID("a", "Flags")) < PositionInTypes(ID("a", "Msg"))

\* Positions of the hookNewType calls of the latest run for name n.
LoggedAt(n) == { i \in 1..Len(hookLog) : hookLog[i].id = n }

\* C13: recording is insert-or-replace keyed by the fully-qualified name: at
\* every point of a compile() and after it, a name recorded in that run is
\* looked up as the record most recently recorded under it, and every other
\* name is looked up as it was when compile() was called.
C13_LastRecordWins ==
    lastCall.op = "compile"
    => \A n \in AllIDs :
          LET r == lookupType(n)
          IN  IF LoggedAt(n) # {}
              THEN r.ok /\ r.value = hookLog[Max(LoggedAt(n))]
              ELSE IF n \in DOMAIN before.types
              THEN r.ok /\ r.value = before.types[n]
              ELSE ~r.ok

\* Two modules declared a::Color; the one processed second is looked up.
C13_Witness ==
    /\ lastCall.op = "compile" /\ pc = "idle"
    /\ \E i, j \in LoggedAt(ID("a", "Color")) :
          /\ i < j
          /\ hookLog[i].is_resolved /\ hookLog[j].is_resolved
          /\ hookLog[i].module_path = FileASpicyCwd
          /\ hookLog[j].module_path = FileASpicyBase
          /\ j = Max(LoggedAt(ID("a", "Color")))
    /\ lookupType(ID("a", "Color")).value.module_path = FileASpicyBase
    /\ lookupType(ID("a", "Color")).value.type = "struct"

\* C14: lookupType(name) returns the stored record when one is recorded under
\* exactly that name and the unknown-type error otherwise; lookupType<T>(name)
\* returns the unknown-type error when the name is absent, the wrong-kind
\* error when the stored type is not a T, and the stored record otherwise;
\* neither changes the registry or the enum list.
C14_Lookup ==
    lastCall.op = "lookupType"
    => LET id == lastCall.id
           T  == lastCall.T
           r  == lastCall.result
       IN  /\ _types = before.types
           /\ _public_enums = before.public_enums
           /\ id \notin DOMAIN _types
                => ~r.ok /\ r.error.msg = "unknown type"
           /\ (id \in DOMAIN _types /\ T # "any" /\ _types[id].type # T)
                => ~r.ok /\ r.error.msg = "is not of expected type"
           /\ (id \in DOMAIN _types /\ (T = "any" \/ _types[id].type = T))
                => r.ok /\ r.value = _types[id]

\* An enum was expected where the name is recorded as a struct.
C14_Witness ==
    /\ lastCall.op = "lookupType"
    /\ lastCall.id = ID("a", "Color") /\ lastCall.T = "enum"
    /\ ID("a", "Color") \in DOMAIN _types
    /\ _types[ID("a", "Color")].type = "struct"
    /\ ~lastCall.result.ok
    /\ lastCall.result.error.kind = "WrongKind"

\* C15: a false returned by the glue coordinator is returned to the caller as
\* an error with a fixed diagnostic: by loadFile of a glue-description file
\* when loadEvtFile returned false, and by the compilation-finished hook, and
\* so by compile(), when the glue compile returned false.
C15_GlueFailureReported ==
    failure = GlueFalse
    => /\ lastCall.op \in { "loadFile", "compile" }
       /\ lastCall.op = "loadFile"
            => /\ lastCall.rpath.ext = ".evt"
               /\ lastCall.result =
                     Error("LoadFailure", "error loading EVT file", lastCall.rpath)
       /\ lastCall.op = "compile"
            => /\ pc = "idle"
               /\ lastCall.result =
                     Error("GlueFailure", "glue compilation failed", EmptyPath)

\* compile() has failed on the glue compile, after a loadEvtFile had failed.
C15_Witness ==
    /\ failure = GlueFalse
    /\ lastCall.op = "compile" /\ pc = "idle"
    /\ lastCall.result.kind = "GlueFailure"
    /\ before.calls.loadEvtFile = 1 /\ before.glue.evt = {}

\* C16: when the underlying whole-program compile fails, compile() ends and
\* returns that same error, and when addInput fails, loadFile returns that
\* same error and queues nothing: never success, never another error.
C16_ErrorsUnchanged ==
    (failure # Nothing /\ failure # GlueFalse)
    => /\ lastCall.op \in { "loadFile", "compile" }
       /\ lastCall.result = failure
       /\ lastCall.result.kind # "ok"
       /\ lastCall.op = "compile" => pc = "idle" /\ run = NoRun
       /\ lastCall.op = "loadFile" => inputs = before.inputs

\* compile() has returned the compiler's error after resolution failed: the
\* pre-resolution hooks had run, no post-resolution hook had.
C16_Witness ==
    /\ failure = CompileError
    /\ lastCall.op = "compile" /\ pc = "idle"
    /\ lastCall.result = CompileError
    /\ hooked.pre # {} /\ hooked.post = {}

\* C17: a loadFile that fails, with NotFound, UnsupportedInput or LoadFailure,
\* leaves the queued inputs, the registry, the enum list and the glue latch
\* as they were, and leaves everything a later loadFile depends on (the
\* queue, the glue coordinator, the search paths) as it was, with the Driver
\* ready for the next call.
C17_FailedLoadChangesNothing ==
    (lastCall.op = "loadFile" /\ lastCall.result.kind # "ok")
    => /\ lastCall.result.kind \in { "NotFound", "UnsupportedInput", "LoadFailure" }
       /\ inputs = before.inputs
       /\ _types = before.types
       /\ _public_enums = before.public_enums
       /\ _need_glue = before.need_glue
       /\ glue = before.glue
       /\ pc = "idle"

\* A loadFile failed in its subsystem after a compile() had filled the
\* registry and the enum list.
C17_Witness ==
    /\ lastCall.op = "loadFile"
    /\ lastCall.result.kind = "LoadFailure"
    /\ inputs # {}
    /\ DOMAIN _types # {}
    /\ _public_enums # << >>
    /\ ~_need_glue

\* The module names the type visitor leaves out.
ExcludedModules == { "hilti", "spicy_rt", "zeek_rt" }

\* C18: no record of the registry and no record of the enum list belongs to
\* the modules hilti, spicy_rt or zeek_rt, whatever modules the hooks were
\* invoked on.
C18_NoInternalModules ==
    /\ \A n \in DOMAIN _types :
          n[1] \notin ExcludedModules /\ _types[n].module_id \notin ExcludedModules
    /\ \A k \in 1..Len(_public_enums) :
          /\ _public_enums[k].id[1] \notin ExcludedModules
          /\ _public_enums[k].module_id \notin ExcludedModules

\* Both hooks have run on an internal module and on a user module that was
\* recorded.
C18_Witness ==
    /\ \E u \in hooked.pre \cap hooked.post : u.id \in ExcludedModules
    /\ UnitA \in hooked.post
    /\ ID("a", "Color") \in DOMAIN _types
    /\ _public_enums # << >>

\* The latest compile() ran the underlying compiler and returned success.
CompileSucceeded ==
    /\ pc = "idle" /\ lastCall.op = "compile"
    /\ lastCall.result = Nothing /\ before.inputs # {}

\* Positions of the hookNewType calls of the latest run for declaration d of
\* module u.
NewTypeCalls(u, d) ==
    { j \in 1..Len(hookLog) :
        hookLog[j].id = ID(u.id, d.id) /\ hookLog[j].module_path = u.path }

\* hookNewType fired exactly twice for declaration d of module u: first for
\* the unresolved type, then for the resolved one.
FiredTwice(u, d) ==
    LET c == NewTypeCalls(u, d)
    IN  /\ Cardinality(c) = 2
        /\ \E j, k \in c :
              /\ j < k
              /\ hookLog[j] = TypeInfo(u, d, FALSE)
              /\ hookLog[k] = TypeInfo(u, d, TRUE)

C20_ResolvedStaysResolved ==
    [][ \A n \in AllIDs :
          (n \in DOMAIN _types /\ _types[n].is_resolved)
          => (n \in DOMAIN _types' /\ _types'[n].is_resolved) ]_vars

\* C21: once a compile() has returned an error, whether the compiler's or the
\* glue compilation's, no later step of a pre-resolution, post-resolution or
\* compilation-finished hook changes the registry, the enum list or the glue
\* coordinator.
C21_NoHookAfterFailure ==
    [][ (failed /\ pc = "compiling")
        => /\ _types' = _types
           /\ _public_enums' = _public_enums
           /\ glue' = glue ]_vars

\* C22: the enum list never holds two records with the same fully-qualified
\* name, and no step after the pre-resolution hooks of a run (a
\* post-resolution hook in particular) adds to it.
C22_EnumListNoDuplicates ==
    [][ /\ \A i, j \in 1..Len(_public_enums') :
              i # j => _public_enums'[i].id # _public_enums'[j].id
        /\ (pc = "compiling" /\ run.prePending = {})
              => _public_enums' = _public_enums ]_vars

\* The step is the pre-resolution hook, or the post-resolution hook, of the
\* running compile() invoked on module u.
PreHookOn(u) ==
    /\ pc = "compiling"
    /\ u \in run.prePending
    /\ run'.prePending = run.prePending \ {u}
    /\ run'.units = run.units

PostHookOn(u) ==
    /\ pc = "compiling"
    /\ run.prePending = {}
    /\ u \in run.postPending
    /\ run'.postPending = run.postPending \ {u}
    /\ run'.units = run.units

AllUnits == Units \cup RuntimeUnits

\* C23: a pre- or post-resolution hook invoked on a module without an
\* originating path returns without an error, leaves the registry and the
\* enum list unchanged and calls no hookNewType.
C23_InMemorySkipped ==
    [][ \A u \in AllUnits :
          (is_empty(u.path) /\ (PreHookOn(u) \/ PostHookOn(u)))
          => /\ _types' = _types
             /\ _public_enums' = _public_enums
             /\ hookLog' = hookLog
             /\ pc' = "compiling" ]_vars

\* Both hooks have run on the in-memory module, next to a module from a file
\* that was recorded.
C23_Witness ==
    /\ UnitMem \in hooked.pre \cap hooked.post
    /\ UnitA \in hooked.post
    /\ ID("a", "Msg") \in DOMAIN _types
    /\ ID("mem", "Tmp") \notin DOMAIN _types
    /\ \A k \in 1..Len(hookLog) : ~is_empty(hookLog[k].module_path)

\* C24: a spicyz run loads the inputs in command-line order; the step after a
\* failed loadFile is main's return with exit status 1, with no further
\* loadFile and no compile(); the step after a failed compile() is main's
\* return with exit status 1; main returns 0 only right after a compile()
\* that returned success, reached with every input loaded and no call failed;
\* nothing happens after main has returned.
C24_SpicyzExit ==
    [][ /\ main.pc # "returned"
        /\ (lastCall'.op = "loadFile")
              => /\ ncalls' <= Len(main'.inputs)
                 /\ lastCall'.file = main'.inputs[ncalls']
                 /\ calls'.compile = 0
        /\ (lastCall.op = "loadFile" /\ lastCall.result.kind # "ok")
              => /\ main'.pc = "returned" /\ main'.exit = 1
                 /\ driverVars' = driverVars
        /\ (lastCall.op = "compile" /\ pc = "idle" /\ lastCall.result.kind # "ok")
              => /\ main'.pc = "returned" /\ main'.exit = 1
                 /\ driverVars' = driverVars
        /\ (main'.pc = "returned") => main'.exit \in {0, 1}
        /\ (main'.exit = 0)
              => /\ main'.pc = "returned"
                 /\ lastCall'.op = "compile" /\ lastCall'.result = Nothing
                 /\ pc' = "idle" /\ ~failed'
                 /\ ncalls' = Len(main'.inputs) + 1 ]_vars

\* The first of two inputs failed to load: main returned 1, the second input
\* was never loaded and compile() never ran.
C24_Witness ==
    /\ main.pc = "returned" /\ main.exit = 1
    /\ Len(main.inputs) = 2
    /\ ncalls = 1
    /\ lastCall.op = "loadFile" /\ lastCall.result.kind # "ok"
    /\ calls.compile = 0

\* Both inputs loaded, compile() ran its hooks and succeeded: main returned 0.
C24_WitnessZero ==
    /\ main.pc = "returned" /\ main.exit = 0
    /\ Len(main.inputs) = 2 /\ ncalls = 3
    /\ calls.compile = 1 /\ hookLog # << >>

C26_EnumListSnapshots ==
    [][ /\ \A k \in 1..Len(_public_enums') :
             /\ _public_enums'[k].is_resolved = FALSE
             /\ _public_enums'[k].linkage = "public"
             /\ _public_enums'[k].type = "enum"
        /\ \A u \in AllUnits : PostHookOn(u) => _public_enums' = _public_enums ]_vars

\* The post-resolution pass has replaced the registry entry of an exported
\* enum by the resolved record; the enum list still holds the snapshot.
C26_Witness ==
    /\ UnitA \in hooked.post
    /\ ID("a", "Color") \in DOMAIN _types
    /\ _types[ID("a", "Color")].is_resolved
    /\ \E k \in 1..Len(_public_enums) :
          /\ _public_enums[k].id = ID("a", "Color")
          /\ ~_public_enums[k].is_resolved

\* C27: a pre- or post-resolution hook invoked on a module whose extension
\* is not ".spicy" leaves the registry, the enum list, the hookNewType log
\* and the glue coordinator as they are; the modules registered with the
\* glue coordinator change only in a post-resolution hook of a ".spicy"
\* module with a non-empty path, and every such hook appends that module
\* exactly once.
C27_NonSourceIgnored ==
    [][ /\ \A u \in AllUnits :
             (u.ext # ".spicy" /\ (PreHookOn(u) \/ PostHookOn(u)))
             => /\ _types' = _types /\ _public_enums' = _public_enums
                /\ hookLog' = hookLog /\ glue' = glue
        /\ (glue'.modules # glue.modules)
             => \E u \in AllUnits :
                   /\ PostHookOn(u)
                   /\ u.ext = ".spicy" /\ ~is_empty(u.path)
        /\ \A u \in AllUnits :
             (PostHookOn(u) /\ u.ext = ".spicy" /\ ~is_empty(u.path))
             => glue'.modules = Append(glue.modules, << u.id, u.path >>) ]_vars

\* Both hooks have run on the intermediate-representation module and on a
\* source module: only the source module is registered and recorded.
C27_Witness ==
    /\ UnitHlt \in hooked.pre \cap hooked.post
    /\ UnitA \in hooked.post
    /\ glue.modules = << << UnitA.id, UnitA.path >> >>
    /\ ID("d", "Level") \notin DOMAIN _types
    /\ ID("a", "Color") \in DOMAIN _types
    /\ \A k \in 1..Len(hookLog) : hookLog[k].module_id # "d"
    /\ \A k \in 1..Len(_public_enums) : _public_enums[k].module_id # "d"

====
